---- MODULE Spec2Model ----
(***************************************************************************)
(* Audio-activity switching engine of atem-mini-scripts:                   *)
(*   AudioLevelTracker (src/lib/AudioLevelTracker.js),                     *)
(*   SwitchDecider     (src/unnamed/part_000, lib/SwitchDecider.js),       *)
(*   AtemAutoSwitch    (src/auto-switch-atem.js).                          *)
(*                                                                         *)
(* Time is counted in polling intervals (CONFIG.detection.updateInterval). *)
(* Normalized levels (0..1 in the source) are counted in hundredths, and   *)
(* averages are compared exactly, by cross-multiplication of sum and count.*)
(* null is Null for an input id and NullT for an instant.                  *)
(*                                                                         *)
(* A local of the source that is read several times is bound once, as the  *)
(* element of a singleton set, so that it is computed once as in the code. *)
(***************************************************************************)
EXTENDS Integers, Sequences, FiniteSets, TLC

VARIABLES
  CONFIG,                   \* config.js, read once at startup
  now,                      \* Date.now()
  monitoring,               \* startMonitoring has run (timer and listeners installed)
  isConnected,              \* AtemAutoSwitch.isConnected
  atemState,                \* atem.state.fairlight.inputs: the level last reported per input
  tracker,                  \* AudioLevelTracker: levels (a Map, in insertion order), lastTimeAnyAudio
  currentCamera,            \* AtemAutoSwitch.currentCamera
  lastSwitchTime,           \* AtemAutoSwitch.lastSwitchTime
  pendingSwitch,            \* AtemAutoSwitch.pendingSwitch
  wideHoldSingleStartedAt,  \* AtemAutoSwitch.wideHoldSingleStartedAt
  wideHoldSingleTargetId,   \* AtemAutoSwitch.wideHoldSingleTargetId
  events,                   \* level and stateChanged events handled so far
  last,                     \* history: what the most recent handler did (its log line included)
  everAbove,                \* history: some stored sample exceeded volumeThreshold
  cand,                     \* history: streak of evaluateSwitch calls with the same Decider target
  multiRun,                 \* history: streak of connected evaluations with 2+ active inputs
  holdRun,                  \* history: streak of 'single' evaluations since arriving on the wide camera
  firstSingle,              \* history: first 'single' candidate seen since the last switch to the wide camera
  aboveSince,               \* history: per input, since when its window average is above threshold
  talk,                     \* history: scenario A, when input 1 started talking
  quiet,                    \* history: scenario C, when every input went silent
  lastLoud,                 \* history: instant of the last stored sample above volumeThreshold
  stored,                   \* history: per input, every sample stored so far
  speaker,                  \* history: per input, since when every sample stored is loud, and
                            \* whether the input has been active since
  inflight,                 \* doCut calls whose device commands are not all answered yet
  device,                   \* the switcher: program and preview input, commands received and not yet done
  observe                   \* which of cand, multiRun, holdRun, firstSingle, aboveSince, talk,
                            \* stored, inflight, device this run records

engineVars == <<currentCamera, lastSwitchTime, pendingSwitch,
                wideHoldSingleStartedAt, wideHoldSingleTargetId>>
histVars == <<last, everAbove, cand, multiRun, holdRun, firstSingle, aboveSince, talk,
              quiet, lastLoud, stored, speaker>>
vars == <<CONFIG, now, monitoring, isConnected, atemState, tracker, events,
          engineVars, inflight, device, histVars, observe>>

(***************************************************************************)
(* Bounds of the model.                                                    *)
(***************************************************************************)
MaxTime == 8      \* the clock stops here
MaxEvents == 1     \* level and stateChanged events handled in a run
MaxStores == 4     \* store calls in a run of the tracker alone
MaxQueryTime == 3  \* the clock of a run of the tracker alone stops here
MaxBurst == 2      \* store calls at one instant, in a run of the tracker fed in bursts
MaxBurstTime == 6  \* the clock of such a run stops here

Null == 0
NullT == -1

\* Levels a sample can take, in hundredths: silent, and loud.
SampleLevels == {0, 100}

\* Inputs that deliver level events: the mapped cameras and one unmapped input.
EventInputs == {1, 2, 3, 4}

\* Inputs the switcher state holds a Fairlight level for (the cameras with a
\* microphone); the polling loop skips the others.
FairlightInputs == {1, 2}

(***************************************************************************)
(* Configuration (config.js).  Durations are in polling intervals.         *)
(***************************************************************************)
BaseConfig ==
  [ cameraMapping          |-> <<1, 2, 3>>,
    wideCameraId           |-> 3,
    silenceToWideMs        |-> 2,
    volumeThreshold        |-> 11,
    holdTime               |-> 1,
    cooldownTime           |-> 4,
    cooldownWideMs         |-> 1,
    minVolumeDifference    |-> 2,
    switchDelayMs          |-> 2,
    switchDelayWideMs      |-> 1,
    wideHoldBeforeSingleMs |-> 0,
    samplesForAverage      |-> 2,
    transitionType         |-> "cut",
    minDb                  |-> -4000,    \* in hundredths of a dB, as the raw levels
    maxDb                  |-> 0 ]

HoldConfig == [BaseConfig EXCEPT !.wideHoldBeforeSingleMs = 2]

\* A configuration whose cooldown and delay let two cuts between single
\* cameras happen before MaxTime.
FastConfig == [BaseConfig EXCEPT !.cooldownTime = 3, !.switchDelayMs = 1]

\* A longer window and hold time: the oldest retained sample can be older
\* than the hold time while the newest is the first loud one.
WindowConfig == [BaseConfig EXCEPT !.holdTime = 2, !.samplesForAverage = 3]

\* No wide camera: wideCameraId names an input that is not in cameraMapping.
NoWideConfig == [WindowConfig EXCEPT !.wideCameraId = 4]

\* The same without a wide camera, for the engine.
EngineNoWideConfig == [BaseConfig EXCEPT !.wideCameraId = 4]

\* The same delay for every target.
EvenDelayConfig == [BaseConfig EXCEPT !.switchDelayWideMs = 2]

\* A transition that is not a cut: preview, then auto transition.
MixConfig == [BaseConfig EXCEPT !.transitionType = "mix"]

\* A hold before narrowing and a short delay: the cut from the wide camera
\* happens before MaxTime.
NarrowConfig == [HoldConfig EXCEPT !.switchDelayMs = 1]

\* The same without a confirmation delay for the wide camera.
NarrowZeroWideConfig == [NarrowConfig EXCEPT !.switchDelayWideMs = 0]

\* A hold time of two polling intervals and a window of two samples: two
\* samples stored in one interval fill the window in less than holdTime.
BurstConfig == [BaseConfig EXCEPT !.holdTime = 2]

\* No confirmation delay for the wide camera.
ZeroWideDelayConfig == [BaseConfig EXCEPT !.switchDelayWideMs = 0]

Range(s) == {s[j] : j \in 1..Len(s)}
mapped(cfg, inputId) == inputId \in Range(cfg.cameraMapping)

(***************************************************************************)
(* AudioLevelTracker                                                       *)
(***************************************************************************)
NewTracker == [levels |-> <<>>, lastTimeAnyAudio |-> 0]

has(levels, inputId) == \E j \in 1..Len(levels) : levels[j].key = inputId

get(levels, inputId) ==
  IF has(levels, inputId)
  THEN levels[CHOOSE j \in 1..Len(levels) : levels[j].key = inputId].list
  ELSE <<>>

RECURSIVE SumVolume(_)
SumVolume(list) ==
  IF list = <<>> THEN 0 ELSE Head(list).volume + SumVolume(Tail(list))

\* A window that drops the newest sample when it is full: C19 fails on a
\* tracker that uses it.
pushSampleKeepOldest(cfg, list, normalizedLevel, t) ==
  IF Len(list) >= cfg.samplesForAverage THEN list
  ELSE Append(list, [volume |-> normalizedLevel, timestamp |-> t])

\* list.push(...); if (list.length > maxSamples) list.shift()
pushSample(cfg, list, normalizedLevel, t) ==
  LET pushed == Append(list, [volume |-> normalizedLevel, timestamp |-> t])
  IN  IF Len(pushed) > cfg.samplesForAverage THEN Tail(pushed) ELSE pushed

\* Activity recorded at every sample: C20 fails on a tracker that uses it.
lastActivityAnyLevel(cfg, tr, normalizedLevel, t) == t

\* if (normalizedLevel > volumeThreshold) this.lastTimeAnyAudio = Date.now()
lastActivity(cfg, tr, normalizedLevel, t) ==
  IF normalizedLevel > cfg.volumeThreshold THEN t ELSE tr.lastTimeAnyAudio

store(cfg, tr, inputId, normalizedLevel, t) ==
  LET lv1 == IF has(tr.levels, inputId)
             THEN tr.levels
             ELSE Append(tr.levels, [key |-> inputId, list |-> <<>>])
  IN  [ levels |->
          [j \in 1..Len(lv1) |->
             IF lv1[j].key = inputId
             THEN [lv1[j] EXCEPT !.list = pushSample(cfg, @, normalizedLevel, t)]
             ELSE lv1[j]],
        lastTimeAnyAudio |-> lastActivity(cfg, tr, normalizedLevel, t) ]

\* avgVolume > volumeThreshold, with avgVolume = sum / length
aboveThreshold(cfg, list) ==
  SumVolume(list) > cfg.volumeThreshold * Len(list)

\* A hold time one interval short: C6 fails on a tracker that uses it.
heldAlmostLongEnough(cfg, list, t) == t - list[1].timestamp >= cfg.holdTime - 1

\* timeSinceFirst >= holdTime
heldLongEnough(cfg, list, t) == t - list[1].timestamp >= cfg.holdTime

\* A tracker whose activity expires when samples stop arriving: C31 fails on
\* a tracker that uses it.
isActiveWhileFresh(cfg, entry, t) ==
  /\ Len(entry.list) # 0
  /\ mapped(cfg, entry.key)
  /\ aboveThreshold(cfg, entry.list)
  /\ heldLongEnough(cfg, entry.list, t)
  /\ t - entry.list[Len(entry.list)].timestamp <= cfg.holdTime

isActive(cfg, entry, t) ==
  /\ Len(entry.list) # 0
  /\ mapped(cfg, entry.key)
  /\ aboveThreshold(cfg, entry.list)
  /\ heldLongEnough(cfg, entry.list, t)

\* The result array, in the Map's iteration order.
getCamerasWithAudio(cfg, tr, t) ==
  LET keep(e) == isActive(cfg, e, t)
      cam(e) == [inputId |-> e.key, sum |-> SumVolume(e.list), n |-> Len(e.list)]
      F[j \in 0..Len(tr.levels)] ==
        IF j = 0 THEN <<>>
        ELSE IF keep(tr.levels[j]) THEN Append(F[j-1], cam(tr.levels[j]))
        ELSE F[j-1]
  IN  F[Len(tr.levels)]

activeInputs(cfg, tr, t) ==
  {c.inputId : c \in Range(getCamerasWithAudio(cfg, tr, t))}

\* avgVolume - currentAvg < minVolumeDifference
tooCloseToCurrent(cfg, tr, c, currentCameraId) ==
  LET currentList == get(tr.levels, currentCameraId)
      cs == SumVolume(currentList)
      cn == Len(currentList)
  IN  IF cn > 0
      THEN c.sum * cn - cs * c.n < cfg.minVolumeDifference * c.n * cn
      ELSE c.sum < cfg.minVolumeDifference * c.n

NoBest == [inputId |-> Null, sum |-> 0, n |-> 1]

\* A search that keeps the last of the inputs with the highest average: C26
\* fails on a tracker that uses it.
getBestSingleCameraLastWins(cfg, tr, t, currentCameraId) ==
  LET cameras == getCamerasWithAudio(cfg, tr, t)
      F[j \in 0..Len(cameras)] ==
        IF j = 0 THEN NoBest
        ELSE LET c == cameras[j]
                 b == F[j-1]
             IN  IF currentCameraId # Null /\ tooCloseToCurrent(cfg, tr, c, currentCameraId)
                 THEN b
                 ELSE IF c.sum * b.n >= b.sum * c.n THEN c ELSE b
  IN  F[Len(cameras)]

getBestSingleCamera(cfg, tr, t, currentCameraId) ==
  LET cameras == getCamerasWithAudio(cfg, tr, t)
      \* best so far; maxVolume is best.sum / best.n (0 at the start)
      F[j \in 0..Len(cameras)] ==
        IF j = 0 THEN NoBest
        ELSE LET c == cameras[j]
                 b == F[j-1]
             IN  IF currentCameraId # Null /\ tooCloseToCurrent(cfg, tr, c, currentCameraId)
                 THEN b
                 ELSE IF c.sum * b.n > b.sum * c.n THEN c ELSE b
  IN  F[Len(cameras)]

getSilenceDuration(tr, t) == t - tr.lastTimeAnyAudio

(***************************************************************************)
(* SwitchDecider                                                           *)
(***************************************************************************)
NoDecision == [switchTo |-> Null, reason |-> "none", silenceDuration |-> 0]

\* A wide camera taken as configured whatever cameraMapping holds: C18 fails
\* on a decider that uses it.
wideConfigUnchecked(cfg) == TRUE

\* Number.isFinite(this.wideId) && config.cameraMapping[this.wideId]
wideConfig(cfg) == mapped(cfg, cfg.wideCameraId)

\* A silence rule without the sentinel test on lastTimeAnyAudio: C21 fails on
\* a decider that uses it.
silenceRuleNoSentinel(cfg, tr, cameras, currentCameraId, t) ==
  /\ Len(cameras) = 0
  /\ wideConfig(cfg)
  /\ currentCameraId # cfg.wideCameraId
  /\ getSilenceDuration(tr, t) >= cfg.silenceToWideMs

silenceRule(cfg, tr, cameras, currentCameraId, t) ==
  /\ Len(cameras) = 0
  /\ wideConfig(cfg)
  /\ currentCameraId # cfg.wideCameraId
  /\ tr.lastTimeAnyAudio > 0
  /\ getSilenceDuration(tr, t) >= cfg.silenceToWideMs

multiRule(cfg, cameras, currentCameraId) ==
  /\ wideConfig(cfg)
  /\ Len(cameras) >= 2
  /\ currentCameraId # cfg.wideCameraId

\* A single rule that takes any active input: C8 fails on a decider that uses it.
singleRuleSomeActive(cameras) == Len(cameras) >= 1

\* camerasWithAudio.length === 1
singleRule(cameras) == Len(cameras) = 1

\* const best = tracker.getBestSingleCamera(now, currentCameraId); if (best && ...)
singleCandidate(best, currentCameraId) ==
  IF best.inputId # Null /\ best.inputId # currentCameraId
  THEN [switchTo |-> best.inputId, reason |-> "single", silenceDuration |-> 0]
  ELSE NoDecision

\* The three rules, given camerasWithAudio.
candidateOf(cfg, tr, cameras, currentCameraId, t) ==
  IF silenceRule(cfg, tr, cameras, currentCameraId, t)
  THEN [switchTo |-> cfg.wideCameraId, reason |-> "silence",
        silenceDuration |-> getSilenceDuration(tr, t)]
  ELSE IF multiRule(cfg, cameras, currentCameraId)
  THEN [switchTo |-> cfg.wideCameraId, reason |-> "multi", silenceDuration |-> 0]
  ELSE IF singleRule(cameras)
  THEN CHOOSE c \in { singleCandidate(best, currentCameraId) :
                        best \in {getBestSingleCamera(cfg, tr, t, currentCameraId)} } : TRUE
  ELSE NoDecision

\* The candidate before the cooldown gate.
candidate(cfg, tr, currentCameraId, t) ==
  CHOOSE c \in { candidateOf(cfg, tr, cameras, currentCameraId, t) :
                   cameras \in {getCamerasWithAudio(cfg, tr, t)} } : TRUE

\* The wide cooldown for every candidate: C3 fails on a decider that uses it.
cooldownOfWideOnly(cfg, c, currentCameraId) == cfg.cooldownWideMs

cooldownOf(cfg, c, currentCameraId) ==
  LET isWide == c.reason = "silence" \/ c.reason = "multi"
      goingToSingleFromWide ==
        currentCameraId = cfg.wideCameraId /\ c.reason = "single"
  IN  IF isWide \/ goingToSingleFromWide THEN cfg.cooldownWideMs ELSE cfg.cooldownTime

\* A gate that lets every candidate through: C12 fails on a decider that uses it.
cooldownGateOpen(cfg, c, currentCameraId, t, lastSwitch) == c

\* if (!candidate) return null; the cooldown gate; return candidate
cooldownGate(cfg, c, currentCameraId, t, lastSwitch) ==
  IF c = NoDecision THEN NoDecision
  ELSE IF lastSwitch > 0 /\ t - lastSwitch < cooldownOf(cfg, c, currentCameraId)
  THEN NoDecision
  ELSE c

decide(cfg, tr, currentCameraId, t, lastSwitch) ==
  CHOOSE d \in { cooldownGate(cfg, c, currentCameraId, t, lastSwitch) :
                   c \in {candidate(cfg, tr, currentCameraId, t)} } : TRUE

(***************************************************************************)
(* AtemAutoSwitch: the scheduler                                           *)
(***************************************************************************)
NoPending == [targetId |-> Null, decision |-> NoDecision, scheduledAt |-> NullT]
NoLog == [camera |-> Null, reason |-> "none", silenceDuration |-> 0]

Engine ==
  [ isConnected             |-> isConnected,
    currentCamera           |-> currentCamera,
    lastSwitchTime          |-> lastSwitchTime,
    pendingSwitch           |-> pendingSwitch,
    wideHoldSingleStartedAt |-> wideHoldSingleStartedAt,
    wideHoldSingleTargetId  |-> wideHoldSingleTargetId,
    log                     |-> NoLog,
    cmds                    |-> <<>> ]

\* doCut(): the call in flight, with the command it is awaiting.
doCut(cfg, actualId) ==
  [ target  |-> actualId,
    command |-> IF cfg.transitionType = "cut"
                THEN "changeProgramInput" ELSE "changePreviewInput" ]

\* A switch that also empties the hold: C30 fails on an engine that uses it.
switchToCameraClearHold(cfg, eng, inputId, decision, t) ==
  IF ~mapped(cfg, inputId) THEN eng
  ELSE IF ~eng.isConnected THEN eng
  ELSE [eng EXCEPT !.currentCamera = inputId,
                   !.lastSwitchTime = t,
                   !.wideHoldSingleStartedAt = NullT,
                   !.wideHoldSingleTargetId = Null,
                   !.log = [camera |-> inputId, reason |-> decision.reason,
                            silenceDuration |-> decision.silenceDuration],
                   !.cmds = Append(@, doCut(cfg, inputId))]

\* switchToCamera: the guards, then currentCamera, lastSwitchTime and the log
\* line of the confirmed switch, then doCut() without awaiting it.  The
\* switcher state lists every input under its own id, so actualId is id.
switchToCamera(cfg, eng, inputId, decision, t) ==
  IF ~mapped(cfg, inputId) THEN eng
  ELSE IF ~eng.isConnected THEN eng
  ELSE [eng EXCEPT !.currentCamera = inputId,
                   !.lastSwitchTime = t,
                   !.log = [camera |-> inputId, reason |-> decision.reason,
                            silenceDuration |-> decision.silenceDuration],
                   !.cmds = Append(@, doCut(cfg, inputId))]

RemoveAt(seq, j) == SubSeq(seq, 1, j - 1) \o SubSeq(seq, j + 1, Len(seq))

\* The device acknowledges the command that call j of doCut awaits: after
\* changePreviewInput the call goes on to autoTransition, otherwise it ends.
afterAck(calls, j) ==
  IF calls[j].command = "changePreviewInput"
  THEN [calls EXCEPT ![j].command = "autoTransition"]
  ELSE RemoveAt(calls, j)

\* A failed command sent again: C15 fails on an engine that uses it.
afterFailureRetry(calls, j) == Append(RemoveAt(calls, j), calls[j])

\* The command that call j of doCut awaits fails: catch (err) ends the call.
afterFailure(calls, j) == RemoveAt(calls, j)

\* A failure that undoes the switch: C14 fails on an engine that uses it.
onCommandErrorRollback(eng, call) ==
  [eng EXCEPT !.currentCamera = Null, !.lastSwitchTime = 0]

\* catch (err) { console.error(...) }
onCommandError(eng, call) == eng

\* A hold that restarts when the target changes: C5 fails on an engine that uses it.
wideHoldEnterPerTarget(eng, switchTo, t) ==
  IF eng.wideHoldSingleStartedAt = NullT \/ eng.wideHoldSingleTargetId # switchTo
  THEN [eng EXCEPT !.wideHoldSingleStartedAt = t, !.wideHoldSingleTargetId = switchTo]
  ELSE eng

\* if (this.wideHoldSingleStartedAt == null) { startedAt = now; targetId = switchTo }
wideHoldEnter(eng, switchTo, t) ==
  IF eng.wideHoldSingleStartedAt = NullT
  THEN [eng EXCEPT !.wideHoldSingleStartedAt = t, !.wideHoldSingleTargetId = switchTo]
  ELSE eng

clearWideHold(eng) ==
  [eng EXCEPT !.wideHoldSingleStartedAt = NullT, !.wideHoldSingleTargetId = Null]

\* A decision with no candidate that clears the hold on every camera: C24
\* fails on an engine that uses it.
onNoDecisionClearHold(cfg, eng) ==
  clearWideHold([eng EXCEPT !.pendingSwitch = NoPending])

\* The decision with no candidate: pendingSwitch cleared, the hold kept on the wide camera.
onNoDecision(cfg, eng) ==
  LET e1 == [eng EXCEPT !.pendingSwitch = NoPending]
  IN  IF eng.currentCamera # cfg.wideCameraId THEN clearWideHold(e1) ELSE e1

switchDelayOf(cfg, decision) ==
  IF decision.reason = "multi" \/ decision.reason = "silence"
  THEN cfg.switchDelayWideMs
  ELSE cfg.switchDelayMs

\* Delay confirmation, lines 263-293.
confirmDelay(cfg, eng, decision, t) ==
  LET switchTo == decision.switchTo
      switchDelayMs == switchDelayOf(cfg, decision)
  IN  IF switchDelayMs <= 0
      THEN switchToCamera(cfg, eng, switchTo, decision, t)
      ELSE IF eng.pendingSwitch = NoPending \/ eng.pendingSwitch.targetId # switchTo
      THEN [eng EXCEPT !.pendingSwitch =
              [targetId |-> switchTo, decision |-> decision, scheduledAt |-> t]]
      ELSE IF t - eng.pendingSwitch.scheduledAt < switchDelayMs
      THEN eng
      ELSE [switchToCamera(cfg, eng, eng.pendingSwitch.targetId,
                           eng.pendingSwitch.decision, t)
              EXCEPT !.pendingSwitch = NoPending]

\* No hold before narrowing from the wide camera: C23 fails on an engine that
\* uses it.
wideHoldGateOff(cfg, eng, decision, t) ==
  confirmDelay(cfg, clearWideHold(eng), decision, t)

\* The wide-hold gate, lines 241-261.
wideHoldGate(cfg, eng, decision, t) ==
  LET onWide == eng.currentCamera = cfg.wideCameraId
      toSingle == decision.reason = "single"
      wideHoldMs == cfg.wideHoldBeforeSingleMs
  IN  IF onWide /\ toSingle /\ wideHoldMs > 0
      THEN LET e1 == wideHoldEnter(eng, decision.switchTo, t)
           IN  IF t - e1.wideHoldSingleStartedAt < wideHoldMs
               THEN [e1 EXCEPT !.pendingSwitch = NoPending]
               ELSE confirmDelay(cfg, e1, decision, t)
      ELSE confirmDelay(cfg, clearWideHold(eng), decision, t)

\* evaluateSwitch from line 221 on, given the Decider's decision.
onDecision(cfg, eng, decision, t) ==
  IF decision.switchTo = Null THEN onNoDecision(cfg, eng)
  ELSE IF decision.switchTo = eng.currentCamera
  THEN clearWideHold([eng EXCEPT !.pendingSwitch = NoPending])
  ELSE wideHoldGate(cfg, eng, decision, t)

\* An evaluation that does not look at the connection: C17 fails on an engine
\* that uses it.
evaluateSwitchAnyway(cfg, eng, tr, t) ==
  CHOOSE e \in
    { onDecision(cfg, eng, decision, t) :
        decision \in {decide(cfg, tr, eng.currentCamera, t, eng.lastSwitchTime)} } : TRUE

evaluateSwitch(cfg, eng, tr, t) ==
  IF ~eng.isConnected THEN eng
  ELSE CHOOSE e \in
         { onDecision(cfg, eng, decision, t) :
             decision \in {decide(cfg, tr, eng.currentCamera, t, eng.lastSwitchTime)} } : TRUE

(***************************************************************************)
(* Level codec: raw levels are Int16 values, dB * 100.                     *)
(***************************************************************************)
NoSignal == -32768

\* undefined: the value of a field that the payload lacks.
Undefined == NoSignal - 1

\* The payload of a levelChanged event: payload.levels and its two fields.
NoPayload == [levels |-> FALSE, leftLevel |-> Undefined, rightLevel |-> Undefined]

RawLevels == {NoSignal, -2000}

Payloads ==
  {NoPayload} \cup
  { [levels |-> TRUE, leftLevel |-> l, rightLevel |-> r] :
      l \in RawLevels \cup {Undefined}, r \in RawLevels \cup {Undefined} }

malformed(props) ==
  ~props.levels \/ props.leftLevel = Undefined \/ props.rightLevel = Undefined

\* x ?? 0
orZero(x) == IF x = Undefined THEN 0 ELSE x

\* Math.pow((10^(db/20) - 10^(minDb/20)) / (10^(maxDb/20) - 10^(minDb/20)), 0.7)
\* with minDb = -40 and maxDb = 0, in hundredths: 0.069 at -30 dB, 0.187 at
\* -20 dB, 0.440 at -10 dB; a step table between these levels.
curve(db) ==
  IF db < -2000 THEN 7 ELSE IF db < -1000 THEN 19 ELSE 44

dbToNormalizedLevel(db, minDb, maxDb) ==
  IF db <= minDb THEN 0
  ELSE IF db >= maxDb THEN 100
  ELSE curve(db)

\* The normalized level of a payload (props is not null here).
parseFairlightLevels(props, minDb, maxDb) ==
  LET left == orZero(props.leftLevel)
      right == orZero(props.rightLevel)
      maxLevel == IF left >= right THEN left ELSE right
  IN  IF maxLevel <= NoSignal THEN 0
      ELSE dbToNormalizedLevel(maxLevel, minDb, maxDb)

(***************************************************************************)
(* Handlers                                                                *)
(***************************************************************************)
SetEngine(e) ==
  /\ currentCamera' = e.currentCamera
  /\ lastSwitchTime' = e.lastSwitchTime
  /\ pendingSwitch' = e.pendingSwitch
  /\ wideHoldSingleStartedAt' = e.wideHoldSingleStartedAt
  /\ wideHoldSingleTargetId' = e.wideHoldSingleTargetId

\* updateAudioLevelsFromState: one store per mapped input that the switcher
\* state holds a level for, in the order of Object.keys(cameraMapping).
\* polled[inputId] is the normalized level read, or NullT where there is none.
updateAudioLevelsFromState(cfg, tr, polled, t) ==
  LET ids == cfg.cameraMapping
      F[j \in 0..Len(ids)] ==
        IF j = 0 THEN tr
        ELSE IF polled[ids[j]] = NullT THEN F[j-1]
        ELSE store(cfg, F[j-1], ids[j], polled[ids[j]], t)
  IN  F[Len(ids)]

\* processLevel(inputIndex, props), up to the evaluation.
processLevel(cfg, tr, inputIndex, normalized, t) ==
  IF inputIndex <= 0 THEN tr ELSE store(cfg, tr, inputIndex, normalized, t)

\* What the switcher state can hold: a level for each input of
\* FairlightInputs, nothing for the others.  The connection library refreshes
\* it from the device while connected; it stays as it is while disconnected.
PolledStates(cfg) ==
  { [i \in Range(cfg.cameraMapping) |-> IF i \in FairlightInputs THEN f[i] ELSE NullT] :
      f \in [FairlightInputs -> SampleLevels] }

SilentState(cfg) ==
  [i \in Range(cfg.cameraMapping) |-> IF i \in FairlightInputs THEN 0 ELSE NullT]

FreshStates == IF isConnected THEN PolledStates(CONFIG) ELSE {atemState}

\* The peak levels the switcher state can report for an input: a level in
\* the units of the level events (-20 dB), no signal at all (rawLevel stays
\* 0), and full scale as a fraction (1).
PeakLevels == {-2000, 0, 1}

\* No raw levels on record: the handler took its levels already normalized.
NoRaw == <<>>

\* Math.max(0, Math.min(1, x)), in hundredths
clamp(x) == IF x < 0 THEN 0 ELSE IF x > 100 THEN 100 ELSE x

\* updateAudioLevelsFromState, lines 186-203: the normalized level, in
\* hundredths, of the rawLevel read from the switcher state.
peakToNormalized(rawLevel) ==
  IF rawLevel = 0 THEN 0
  ELSE IF rawLevel < 0
  THEN LET min == IF rawLevel < -60 THEN -100 ELSE -60
       IN  clamp(((rawLevel - min) * 100) \div (-min))
  ELSE IF rawLevel <= 1 THEN rawLevel * 100
  ELSE IF rawLevel <= 100 THEN rawLevel
  ELSE clamp((rawLevel * 100) \div 65535)

\* The switcher state with its raw peak levels: one for each input of
\* FairlightInputs, no entry (Undefined) for the others.
RawStates(cfg) ==
  { [i \in Range(cfg.cameraMapping) |-> IF i \in FairlightInputs THEN f[i] ELSE Undefined] :
      f \in [FairlightInputs -> PeakLevels] }

\* The normalized levels that updateAudioLevelsFromState stores for raw.
normalizedState(raw) ==
  [i \in DOMAIN raw |-> IF raw[i] = Undefined THEN NullT ELSE peakToNormalized(raw[i])]

(***************************************************************************)
(* History of the run, for the statements below.                           *)
(***************************************************************************)
NoEval ==
  [ op |-> "init", evaluated |-> FALSE, decision |-> NoDecision, nActive |-> 0,
    from |-> Null, prevSwitchTime |-> 0, holdBefore |-> NullT, log |-> NoLog,
    cmds |-> <<>>, failed |-> Null, payload |-> NoPayload, raw |-> NoRaw ]

Quiet(op) == [NoEval EXCEPT !.op = op]

\* The record of a call of evaluateSwitch at t on tracker tr, with result e.
EvalRecord(op, tr, t, e) ==
  IF ~isConnected THEN Quiet(op)
  ELSE [ op             |-> op,
         evaluated      |-> TRUE,
         decision       |-> decide(CONFIG, tr, currentCamera, t, lastSwitchTime),
         nActive        |-> Len(getCamerasWithAudio(CONFIG, tr, t)),
         from           |-> currentCamera,
         prevSwitchTime |-> lastSwitchTime,
         holdBefore     |-> wideHoldSingleStartedAt,
         log            |-> e.log,
         cmds           |-> e.cmds,
         failed         |-> Null,
         payload        |-> NoPayload,
         raw            |-> NoRaw ]

NoCand == [target |-> Null, since |-> NullT]

\* The Decider's answer at this call of evaluateSwitch, connected or not,
\* and since when it names the same target.
CandAfter(tr, t) ==
  LET d == decide(CONFIG, tr, currentCamera, t, lastSwitchTime)
  IN  IF "cand" \notin observe THEN cand
      ELSE IF d.switchTo = Null THEN NoCand
      ELSE IF d.switchTo = cand.target THEN cand
      ELSE [target |-> d.switchTo, since |-> t]

\* Scenario B: the first of the connected evaluations, without a gap, at which
\* two or more inputs are active, the first one made on a non-wide input with
\* the wide cooldown over.
MultiRunAfter(tr, t) ==
  IF "multi" \notin observe THEN multiRun
  ELSE IF /\ isConnected
          /\ Len(getCamerasWithAudio(CONFIG, tr, t)) >= 2
          /\ currentCamera # CONFIG.wideCameraId
  THEN IF multiRun # NullT THEN multiRun
       ELSE IF /\ currentCamera # Null
               /\ wideConfig(CONFIG)
               /\ t - lastSwitchTime >= CONFIG.cooldownWideMs
       THEN t
       ELSE NullT
  ELSE NullT

\* Wide-hold flicker: 0 once a switch has put the engine on the wide camera,
\* then the instant of the first evaluation made there, for as long as every
\* evaluation made there has had a 'single' decision; NullT otherwise.
HoldRunAfter(tr, t, e) ==
  LET d == decide(CONFIG, tr, currentCamera, t, lastSwitchTime)
  IN  IF "hold" \notin observe \/ ~isConnected THEN holdRun
      ELSE IF currentCamera = CONFIG.wideCameraId
      THEN IF d.reason = "single" /\ holdRun # NullT
           THEN IF holdRun = 0 THEN t ELSE holdRun
           ELSE NullT
      ELSE IF e.currentCamera = CONFIG.wideCameraId THEN 0
      ELSE NullT

\* The instant of the first evaluation with a 'single' decision made on the
\* wide camera since the last switch to it (NullT: none yet).
FirstSingleAfter(tr, t, e) ==
  LET d == decide(CONFIG, tr, currentCamera, t, lastSwitchTime)
      wide == CONFIG.wideCameraId
  IN  IF "narrow" \notin observe \/ ~isConnected THEN firstSingle
      ELSE IF e.currentCamera = wide /\ currentCamera # wide THEN NullT
      ELSE IF currentCamera = wide /\ firstSingle = NullT /\ d.reason = "single" THEN t
      ELSE firstSingle

\* Per input: since when the average of its window is above the threshold.
AboveAfter(tr, t) ==
  IF "above" \notin observe THEN aboveSince
  ELSE [ i \in DOMAIN aboveSince |->
           IF get(tr.levels, i) = get(tracker.levels, i) THEN aboveSince[i]
           ELSE IF ~aboveThreshold(CONFIG, get(tr.levels, i)) THEN NullT
           ELSE IF aboveSince[i] # NullT THEN aboveSince[i]
           ELSE t ]

\* Scenario A: the instant of the first sample of input 1 above the threshold.
TalkAfter(loud, t) ==
  IF "talk" \notin observe THEN talk
  ELSE IF talk = NullT /\ loud THEN t
  ELSE talk

\* Scenario C: since when every sample of every input is at or below the
\* threshold, and whether the switch to the wide camera with reason 'silence'
\* has been made since.
NoQuiet == [since |-> NullT, cut |-> FALSE]

silenceCut ==
  /\ last.log.camera = CONFIG.wideCameraId
  /\ last.log.reason = "silence"
  /\ last.log.silenceDuration >= CONFIG.silenceToWideMs

SomeAbove(polled) == \E i \in DOMAIN polled : polled[i] > CONFIG.volumeThreshold

\* The instant of the last stored sample above the threshold (0: none yet).
LoudAfter(loud, t) == IF loud THEN t ELSE lastLoud

\* Every sample stored, per input.
StoredAfter(inputId, normalizedLevel, t) ==
  IF "stored" \notin observe THEN stored
  ELSE [stored EXCEPT ![inputId] = Append(@, [volume |-> normalizedLevel, timestamp |-> t])]

\* Since when every sample stored for an input is above the threshold, and
\* whether getCamerasWithAudio has held the input at some instant since.
NoSpeaker == [since |-> NullT, seen |-> FALSE]

\* After store(inputId, normalizedLevel) at t, which leaves the tracker tr.
SpeakerAfterStore(tr, inputId, normalizedLevel, t) ==
  [ i \in DOMAIN speaker |->
      IF i = inputId /\ normalizedLevel <= CONFIG.volumeThreshold THEN NoSpeaker
      ELSE IF i = inputId /\ speaker[i].since = NullT
      THEN [since |-> t, seen |-> i \in activeInputs(CONFIG, tr, t)]
      ELSE IF speaker[i].since = NullT THEN NoSpeaker
      ELSE [speaker[i] EXCEPT !.seen = @ \/ i \in activeInputs(CONFIG, tr, t)] ]

\* After the clock has moved on to t.
SpeakerAfterAdvance(t) ==
  [ i \in DOMAIN speaker |->
      IF speaker[i].since = NullT THEN NoSpeaker
      ELSE [speaker[i] EXCEPT !.seen = @ \/ i \in activeInputs(CONFIG, tracker, t)] ]

\* The calls of doCut in flight after a handler that made the calls cmds.  A
\* run that does not observe the device takes every command as answered at once.
InflightAfter(cmds) ==
  IF "inflight" \notin observe THEN inflight ELSE inflight \o cmds

\* The switcher before the run: input 1 on program, input 2 on preview, no
\* command received.  overlap: the last switch was issued while commands of
\* an earlier one were not done yet.
NoDevice == [program |-> 1, preview |-> 2, queue |-> <<>>, overlap |-> FALSE]

\* The switcher after a handler that made the calls cmds: each call of doCut
\* sends its first command before the handler returns.  A run that does not
\* observe the switcher leaves it as it is.
DeviceAfter(cmds) ==
  IF "device" \notin observe \/ cmds = <<>> THEN device
  ELSE [device EXCEPT !.queue = @ \o cmds, !.overlap = (device.queue # <<>>)]

\* The effect of a command on the program and preview inputs: an auto
\* transition takes the preview input to program and the program input to
\* preview.
deviceApply(dev, c) ==
  IF c.command = "changeProgramInput" THEN [dev EXCEPT !.program = c.target]
  ELSE IF c.command = "changePreviewInput" THEN [dev EXCEPT !.preview = c.target]
  ELSE [dev EXCEPT !.program = dev.preview, !.preview = dev.program]

\* The commands not yet done once the oldest one is: the call of doCut that
\* awaited changePreviewInput sends autoTransition, after every command sent
\* so far.
afterDone(queue) ==
  Tail(queue) \o
    (IF Head(queue).command = "changePreviewInput"
     THEN <<[target |-> Head(queue).target, command |-> "autoTransition"]>>
     ELSE <<>>)

(***************************************************************************)
(* Actions                                                                 *)
(***************************************************************************)
InitWith(cfg, obs) ==
  /\ CONFIG = cfg
  /\ observe = obs
  /\ now = 1
  /\ monitoring = FALSE
  /\ isConnected = FALSE
  /\ atemState = SilentState(cfg)
  /\ tracker = NewTracker
  /\ events = 0
  /\ currentCamera = Null
  /\ lastSwitchTime = 0
  /\ pendingSwitch = NoPending
  /\ wideHoldSingleStartedAt = NullT
  /\ wideHoldSingleTargetId = Null
  /\ last = NoEval
  /\ everAbove = FALSE
  /\ cand = NoCand
  /\ multiRun = NullT
  /\ holdRun = NullT
  /\ firstSingle = NullT
  /\ aboveSince = [i \in EventInputs |-> NullT]
  /\ talk = NullT
  /\ quiet = NoQuiet
  /\ lastLoud = 0
  /\ stored = [i \in EventInputs |-> <<>>]
  /\ speaker = [i \in FairlightInputs |-> NoSpeaker]
  /\ inflight = <<>>
  /\ device = NoDevice

\* atem.on('connected')
Connected ==
  /\ ~isConnected
  /\ isConnected' = TRUE
  /\ last' = Quiet("connected")
  /\ UNCHANGED <<CONFIG, observe, now, monitoring, atemState, tracker, events, engineVars,
                 everAbove, cand, multiRun, holdRun, firstSingle, aboveSince, talk,
                 quiet, lastLoud, speaker, stored, inflight, device>>

\* atem.on('disconnected')
Disconnected ==
  /\ isConnected
  /\ isConnected' = FALSE
  /\ last' = Quiet("disconnected")
  /\ multiRun' = NullT
  /\ UNCHANGED <<CONFIG, observe, now, monitoring, atemState, tracker, events, engineVars,
                 everAbove, cand, holdRun, firstSingle, aboveSince, talk,
                 quiet, lastLoud, speaker, stored, inflight, device>>

\* main: app.startMonitoring() once connect() has resolved
StartMonitoring ==
  /\ ~monitoring
  /\ isConnected
  /\ monitoring' = TRUE
  /\ tracker' = [tracker EXCEPT !.lastTimeAnyAudio = now]
  /\ last' = Quiet("start")
  /\ UNCHANGED <<CONFIG, observe, now, isConnected, atemState, events, engineVars,
                 everAbove, cand, multiRun, holdRun, firstSingle, aboveSince, talk,
                 quiet, lastLoud, speaker, stored, inflight, device>>

\* The setInterval callback: updateAudioLevelsFromState(); evaluateSwitch(),
\* storing the levels polled, which stand for the raw levels raw.
TickFrom(polled, raw) ==
  /\ monitoring
  /\ now < MaxTime
  /\ now' = now + 1
  /\ atemState' = polled
  /\ \E tr \in {updateAudioLevelsFromState(CONFIG, tracker, polled, now + 1)} :
     \E e \in {evaluateSwitch(CONFIG, Engine, tr, now + 1)} :
         /\ tracker' = tr
         /\ SetEngine(e)
         /\ last' = [EvalRecord("tick", tr, now + 1, e) EXCEPT !.raw = raw]
         /\ cand' = CandAfter(tr, now + 1)
         /\ multiRun' = MultiRunAfter(tr, now + 1)
         /\ holdRun' = HoldRunAfter(tr, now + 1, e)
         /\ firstSingle' = FirstSingleAfter(tr, now + 1, e)
         /\ aboveSince' = AboveAfter(tr, now + 1)
         /\ inflight' = InflightAfter(e.cmds)
         /\ device' = DeviceAfter(e.cmds)
  /\ everAbove' = (everAbove \/ SomeAbove(polled))
  /\ talk' = TalkAfter(polled[1] > CONFIG.volumeThreshold, now + 1)
  /\ lastLoud' = LoudAfter(SomeAbove(polled), now + 1)
  /\ UNCHANGED <<CONFIG, observe, monitoring, isConnected, events, stored, speaker>>

\* The same, given the normalized levels alone.
TickWith(polled) == TickFrom(polled, NoRaw)

Tick == \E polled \in FreshStates : TickWith(polled) /\ UNCHANGED quiet

\* The setInterval callback on a switcher state that holds raw peak levels.
\* The state is refreshed while connected, and not read again otherwise.
TickRaw ==
  \E raw \in RawStates(CONFIG) :
    /\ isConnected
    /\ TickFrom(normalizedState(raw), raw)
    /\ UNCHANGED quiet

\* processLevel(inputIndex, props), given the normalized level of props.
LevelHandled(op, inputIndex, normalized, props) ==
  /\ monitoring
  /\ isConnected
  /\ events < MaxEvents
  /\ events' = events + 1
  /\ \E tr \in {processLevel(CONFIG, tracker, inputIndex, normalized, now)} :
     \E e \in {evaluateSwitch(CONFIG, Engine, tr, now)} :
         /\ tracker' = tr
         /\ SetEngine(e)
         /\ last' = [EvalRecord(op, tr, now, e) EXCEPT !.payload = props]
         /\ cand' = CandAfter(tr, now)
         /\ multiRun' = MultiRunAfter(tr, now)
         /\ holdRun' = HoldRunAfter(tr, now, e)
         /\ firstSingle' = FirstSingleAfter(tr, now, e)
         /\ aboveSince' = AboveAfter(tr, now)
         /\ inflight' = InflightAfter(e.cmds)
         /\ device' = DeviceAfter(e.cmds)
  /\ everAbove' = (everAbove \/ normalized > CONFIG.volumeThreshold)
  /\ talk' = TalkAfter(inputIndex = 1 /\ normalized > CONFIG.volumeThreshold, now)
  /\ lastLoud' = LoudAfter(normalized > CONFIG.volumeThreshold, now)
  /\ UNCHANGED <<CONFIG, observe, now, monitoring, isConnected, atemState, stored, speaker>>

\* atem.on('levelChanged') and atem.on('receivedCommands'), with the
\* normalized level that the payload stands for.
LevelEventWith(inputIndex, normalized) ==
  LevelHandled("event", inputIndex, normalized, NoPayload)

LevelEvent ==
  \E inputIndex \in EventInputs, normalized \in SampleLevels :
    LevelEventWith(inputIndex, normalized) /\ UNCHANGED quiet

\* atem.on('levelChanged') with its payload: processLevel(payload.index,
\* payload.levels) if the payload has levels, nothing otherwise.
LevelChangedWith(inputIndex, props) ==
  IF props.levels
  THEN /\ LevelHandled("levelChanged", inputIndex,
                       parseFairlightLevels(props, CONFIG.minDb, CONFIG.maxDb), props)
       /\ UNCHANGED quiet
  ELSE /\ monitoring
       /\ isConnected
       /\ events < MaxEvents
       /\ events' = events + 1
       /\ last' = [Quiet("levelChanged") EXCEPT !.payload = props]
       /\ UNCHANGED <<CONFIG, observe, now, monitoring, isConnected, atemState, tracker,
                      engineVars, everAbove, cand, multiRun, holdRun, firstSingle, aboveSince,
                      talk, quiet, lastLoud, speaker, stored, inflight, device>>

LevelChanged ==
  \E inputIndex \in EventInputs, props \in Payloads : LevelChangedWith(inputIndex, props)

\* atem.on('stateChanged') on an audio path: updateAudioLevelsFromState()
StateChangedWith(polled) ==
  /\ monitoring
  /\ isConnected
  /\ events < MaxEvents
  /\ events' = events + 1
  /\ atemState' = polled
  /\ \E tr \in {updateAudioLevelsFromState(CONFIG, tracker, polled, now)} :
         /\ tracker' = tr
         /\ aboveSince' = AboveAfter(tr, now)
  /\ everAbove' = (everAbove \/ SomeAbove(polled))
  /\ talk' = TalkAfter(polled[1] > CONFIG.volumeThreshold, now)
  /\ lastLoud' = LoudAfter(SomeAbove(polled), now)
  /\ last' = Quiet("state")
  /\ UNCHANGED <<CONFIG, observe, now, monitoring, isConnected, engineVars,
                 cand, multiRun, holdRun, firstSingle, quiet, stored, inflight, device, speaker>>

StateChanged == \E polled \in PolledStates(CONFIG) : StateChangedWith(polled)

\* Scenario A: every input but input 1 stays silent, and input 1 stays loud
\* once it has started talking.
ScenarioA(polled) ==
  /\ \A i \in DOMAIN polled : i # 1 => polled[i] \in {0, NullT}
  /\ talk # NullT => polled[1] > CONFIG.volumeThreshold

TickA ==
  \E polled \in FreshStates : ScenarioA(polled) /\ TickWith(polled) /\ UNCHANGED quiet

LevelEventA ==
  \E inputIndex \in EventInputs, normalized \in SampleLevels :
    /\ inputIndex # 1 => normalized = 0
    /\ (inputIndex = 1 /\ talk # NullT) => normalized > CONFIG.volumeThreshold
    /\ LevelEventWith(inputIndex, normalized)
    /\ UNCHANGED quiet

\* The silence begins at an instant at which the engine is connected, has a
\* wide camera and is not on it; no sample exceeds the threshold from then on.
TickC ==
  \E polled \in FreshStates, begins \in BOOLEAN :
    /\ begins => /\ quiet = NoQuiet
                 /\ isConnected
                 /\ wideConfig(CONFIG)
                 /\ currentCamera # CONFIG.wideCameraId
    /\ (begins \/ quiet # NoQuiet) => ~SomeAbove(polled)
    /\ TickWith(polled)
    /\ quiet' = IF begins THEN [since |-> now, cut |-> silenceCut']
                ELSE IF quiet # NoQuiet THEN [quiet EXCEPT !.cut = @ \/ silenceCut']
                ELSE quiet

LevelEventC ==
  \E inputIndex \in EventInputs, normalized \in SampleLevels :
    /\ quiet # NoQuiet => normalized <= CONFIG.volumeThreshold
    /\ LevelEventWith(inputIndex, normalized)
    /\ quiet' = IF quiet # NoQuiet THEN [quiet EXCEPT !.cut = @ \/ silenceCut'] ELSE quiet

\* The device acknowledges the command that call j of doCut awaits.
CommandAck ==
  \E j \in 1..Len(inflight) :
    /\ inflight' = afterAck(inflight, j)
    /\ last' = Quiet("ack")
    /\ UNCHANGED <<CONFIG, observe, now, monitoring, isConnected, atemState, tracker,
                   events, engineVars, everAbove, cand, multiRun, holdRun, firstSingle, aboveSince,
                   talk, quiet, lastLoud, speaker, stored, device>>

\* The device rejects the command that call j of doCut awaits, or the command
\* times out.
CommandFail ==
  \E j \in 1..Len(inflight) :
    /\ inflight' = afterFailure(inflight, j)
    /\ SetEngine(onCommandError(Engine, inflight[j]))
    /\ last' = [Quiet("fail") EXCEPT !.failed = inflight[j].target]
    /\ UNCHANGED <<CONFIG, observe, now, monitoring, isConnected, atemState, tracker,
                   events, everAbove, cand, multiRun, holdRun, firstSingle, aboveSince,
                   talk, quiet, lastLoud, speaker, stored, device>>

\* The switcher does the oldest command it has received, and the await of the
\* call that sent it resolves: commands succeed in the order sent.
CommandDone ==
  /\ device.queue # <<>>
  /\ device' = [deviceApply(device, Head(device.queue)) EXCEPT !.queue = afterDone(@)]
  /\ last' = Quiet("done")
  /\ UNCHANGED <<CONFIG, observe, now, monitoring, isConnected, atemState, tracker,
                 events, engineVars, everAbove, cand, multiRun, holdRun, firstSingle,
                 aboveSince, talk, quiet, lastLoud, speaker, stored, inflight>>

\* The tracker alone: AudioLevelTracker.store(inputId, normalizedLevel) at now.
TrackerStoreWith(inputId, normalizedLevel) ==
  /\ events < MaxStores
  /\ events' = events + 1
  /\ \E tr \in {store(CONFIG, tracker, inputId, normalizedLevel, now)} :
         /\ tracker' = tr
         /\ aboveSince' = AboveAfter(tr, now)
  /\ everAbove' = (everAbove \/ normalizedLevel > CONFIG.volumeThreshold)
  /\ lastLoud' = LoudAfter(normalizedLevel > CONFIG.volumeThreshold, now)
  /\ stored' = StoredAfter(inputId, normalizedLevel, now)
  /\ last' = Quiet("store")
  /\ UNCHANGED <<CONFIG, observe, now, monitoring, isConnected, atemState,
                 engineVars, cand, multiRun, holdRun, firstSingle, talk, quiet, inflight, device, speaker>>

TrackerStore ==
  \E inputId \in FairlightInputs, normalizedLevel \in SampleLevels :
    TrackerStoreWith(inputId, normalizedLevel)

\* The tracker alone: time passes between two calls.
Advance ==
  /\ now < MaxQueryTime
  /\ now' = now + 1
  /\ last' = Quiet("advance")
  /\ UNCHANGED <<CONFIG, observe, monitoring, isConnected, atemState, tracker,
                 events, engineVars, everAbove, cand, multiRun, holdRun, firstSingle, aboveSince, talk,
                 quiet, lastLoud, speaker, stored, inflight, device>>

\* The tracker alone, fed by the polling ticks and the level events of one
\* polling interval: up to MaxBurst calls of store at the same instant.
BurstStore ==
  \E inputId \in FairlightInputs, normalizedLevel \in SampleLevels :
    /\ events < MaxBurst
    /\ events' = events + 1
    /\ \E tr \in {store(CONFIG, tracker, inputId, normalizedLevel, now)} :
           /\ tracker' = tr
           /\ speaker' = SpeakerAfterStore(tr, inputId, normalizedLevel, now)
    /\ last' = Quiet("store")
    /\ UNCHANGED <<CONFIG, observe, now, monitoring, isConnected, atemState,
                   engineVars, everAbove, cand, multiRun, holdRun, firstSingle,
                   aboveSince, talk, quiet, lastLoud, stored, inflight, device>>

\* The tracker alone: the next polling interval begins.
BurstAdvance ==
  /\ now < MaxBurstTime
  /\ now' = now + 1
  /\ events' = 0
  /\ speaker' = SpeakerAfterAdvance(now + 1)
  /\ last' = Quiet("advance")
  /\ UNCHANGED <<CONFIG, observe, monitoring, isConnected, atemState, tracker,
                 engineVars, everAbove, cand, multiRun, holdRun, firstSingle,
                 aboveSince, talk, quiet, lastLoud, stored, inflight, device>>

\* The tracker alone: decider.decide(tracker, currentCameraId, now, lastSwitch)
QueryWith(currentCameraId, lastSwitch) ==
  /\ last' = [ NoEval EXCEPT
                 !.op = "query",
                 !.decision = decide(CONFIG, tracker, currentCameraId, now, lastSwitch),
                 !.nActive = Len(getCamerasWithAudio(CONFIG, tracker, now)),
                 !.from = currentCameraId,
                 !.prevSwitchTime = lastSwitch ]
  /\ UNCHANGED <<CONFIG, observe, now, monitoring, isConnected, atemState, tracker,
                 events, engineVars, everAbove, cand, multiRun, holdRun, firstSingle, aboveSince, talk,
                 quiet, lastLoud, speaker, stored, inflight, device>>

Query ==
  \E currentCameraId \in {Null} \cup Range(CONFIG.cameraMapping), lastSwitch \in {0, 1} :
    QueryWith(currentCameraId, lastSwitch)

Next ==
  \/ Connected
  \/ Disconnected
  \/ StartMonitoring
  \/ Tick
  \/ LevelEvent
  \/ StateChanged

\* The engine under the base configuration.
Init == InitWith(BaseConfig, {})
Spec == Init /\ [][Next]_vars

\* The same, recording the Decider's candidate streak.
InitCand == InitWith(BaseConfig, {"cand"})
SpecCand == InitCand /\ [][Next]_vars

\* The same, recording the streak of evaluations with 2+ active inputs.
InitMulti == InitWith(BaseConfig, {"multi"})
SpecMulti == InitMulti /\ [][Next]_vars

\* The engine with a hold before narrowing from the wide camera.
InitHold == InitWith(HoldConfig, {"hold"})
SpecHold == InitHold /\ [][Next]_vars

\* The engine with a short cooldown and delay.
InitFast == InitWith(FastConfig, {})
SpecFast == InitFast /\ [][Next]_vars

\* Scenario A under the longer window, recording when input 1 starts talking.
NextA ==
  \/ Connected
  \/ Disconnected
  \/ StartMonitoring
  \/ TickA
  \/ LevelEventA

InitA == InitWith(WindowConfig, {"talk"})
SpecA == InitA /\ [][NextA]_vars

\* The engine with one confirmation delay for every target, recording the
\* Decider's candidate streak.
InitEven == InitWith(EvenDelayConfig, {"cand"})
SpecEven == InitEven /\ [][Next]_vars

\* The engine and the device that answers its commands, for a cut and for a
\* transition that is not a cut.
NextDevice ==
  \/ Connected
  \/ Disconnected
  \/ StartMonitoring
  \/ Tick
  \/ CommandAck
  \/ CommandFail

InitDevice == \E cfg \in {BaseConfig, MixConfig} : InitWith(cfg, {"inflight"})
SpecDevice == InitDevice /\ [][NextDevice]_vars

\* The engine without a wide camera.
InitNoWide == InitWith(EngineNoWideConfig, {})
SpecNoWide == InitNoWide /\ [][Next]_vars

\* The engine with the payloads of its level events.
NextCodec ==
  \/ Connected
  \/ StartMonitoring
  \/ Tick
  \/ LevelChanged

InitCodec == InitWith(BaseConfig, {})
SpecCodec == InitCodec /\ [][NextCodec]_vars

\* Scenario C: the engine stays connected and the polling ticks keep coming.
NextC ==
  \/ Connected
  \/ StartMonitoring
  \/ TickC
  \/ LevelEventC

InitC == InitWith(BaseConfig, {})
SpecC == InitC /\ [][NextC]_vars /\ WF_vars(TickC)

\* The tracker and the decider alone, with and without a wide camera.
NextTracker ==
  \/ TrackerStore
  \/ Advance
  \/ Query

InitTracker == \E cfg \in {WindowConfig, NoWideConfig} : InitWith(cfg, {"above"})
SpecTracker == InitTracker /\ [][NextTracker]_vars

\* The tracker alone, recording every sample stored.
NextWindow ==
  \/ TrackerStore
  \/ Advance

InitWindow == InitWith(BaseConfig, {"stored"})
SpecWindow == InitWindow /\ [][NextWindow]_vars

\* The engine that cuts to the wide camera without a confirmation delay.
InitZeroWide == InitWith(ZeroWideDelayConfig, {})
SpecZeroWide == InitZeroWide /\ [][Next]_vars

\* The engine with a hold before narrowing from the wide camera, with and
\* without a confirmation delay for the wide camera, recording the first
\* 'single' candidate seen on the wide camera.
InitNarrow == \E cfg \in {NarrowConfig, NarrowZeroWideConfig} : InitWith(cfg, {"narrow"})
SpecNarrow == InitNarrow /\ [][Next]_vars

\* The engine and the switcher that does its commands in the order sent, for
\* a cut and for a transition that is not a cut.
NextOrder ==
  \/ Connected
  \/ Disconnected
  \/ StartMonitoring
  \/ Tick
  \/ CommandDone

InitOrder == \E cfg \in {BaseConfig, MixConfig} : InitWith(cfg, {"device"})
SpecOrder == InitOrder /\ [][NextOrder]_vars

\* The engine with both ingestion paths: raw peak levels polled from the
\* switcher state, and the payloads of the level events.
NextIngest ==
  \/ Connected
  \/ StartMonitoring
  \/ TickRaw
  \/ LevelChanged

InitIngest == InitWith(BaseConfig, {})
SpecIngest == InitIngest /\ [][NextIngest]_vars

\* The tracker alone, fed in bursts.
NextBurst ==
  \/ BurstStore
  \/ BurstAdvance

InitBurst == InitWith(BurstConfig, {})
SpecBurst == InitBurst /\ [][NextBurst]_vars

(***************************************************************************)
(* The claims                                                              *)
(***************************************************************************)
switched == last.log # NoLog

\* C1 (as claimed): Silence sentinel.  As long as no stored sample of any
\* input has exceeded volumeThreshold since startMonitoring, decide produces
\* no candidate with reason 'silence' and evaluateSwitch executes no switch
\* with reason 'silence'.
C1_SilenceSentinel ==
  ~everAbove => (last.decision.reason # "silence" /\ last.log.reason # "silence")

\* C2 (as claimed): Delay confirmation restart.  A switch executed under a
\* positive confirmation delay goes to a target that has been the Decider's
\* candidate target at every call of evaluateSwitch for at least that delay.
C2_DelayConfirmation ==
  (switched /\ switchDelayOf(CONFIG, last.decision) > 0)
    => /\ cand.target = currentCamera
       /\ now - cand.since >= switchDelayOf(CONFIG, last.decision)

\* C3: Cooldown non-violation.  A confirmed switch to a non-wide camera, made
\* while the current camera is not the wide camera, comes at least
\* cooldownTime after the previous confirmed switch.
C3_CooldownNonViolation ==
  (/\ switched
   /\ last.log.camera # CONFIG.wideCameraId
   /\ last.from # CONFIG.wideCameraId
   /\ last.prevSwitchTime > 0)
    => lastSwitchTime - last.prevSwitchTime >= CONFIG.cooldownTime

C3_Witness ==
  /\ switched
  /\ last.log.camera # CONFIG.wideCameraId
  /\ last.from \notin {Null, CONFIG.wideCameraId}
  /\ last.prevSwitchTime > 0
  /\ lastSwitchTime = now

\* C4 (as claimed): Wide-hold reset on multi/silence.  On the wide camera with
\* a WideHoldState in progress, an evaluation at which two or more inputs, or
\* no input, are active clears the WideHoldState.
C4_WideHoldReset ==
  (/\ last.evaluated
   /\ last.from = CONFIG.wideCameraId
   /\ last.holdBefore # NullT
   /\ last.nActive # 1)
    => wideHoldSingleStartedAt = NullT

\* C5: Wide-hold flicker tolerance.  On the wide camera with
\* wideHoldBeforeSingleMs > 0, an evaluation with a 'single' candidate keeps
\* the hold start already recorded, whatever the candidate's target, and lets
\* the candidate through to the delay confirmation exactly when
\* wideHoldBeforeSingleMs has passed since that start; and when every
\* evaluation made on the wide camera has had a 'single' candidate, that start
\* is the instant of the first of them.
C5_FlickerTolerance ==
  (/\ last.evaluated
   /\ last.from = CONFIG.wideCameraId
   /\ last.decision.reason = "single"
   /\ CONFIG.wideHoldBeforeSingleMs > 0)
    => LET start == IF last.holdBefore = NullT THEN now ELSE last.holdBefore
       IN  /\ wideHoldSingleStartedAt = start
           /\ holdRun # NullT => holdRun = start
           /\ (now - start >= CONFIG.wideHoldBeforeSingleMs)
                <=> \/ pendingSwitch.targetId = last.decision.switchTo
                    \/ last.log.camera = last.decision.switchTo

C5_Witness ==
  /\ last.evaluated
  /\ last.from = CONFIG.wideCameraId
  /\ last.decision.reason = "single"
  /\ last.holdBefore # NullT
  /\ last.decision.switchTo # wideHoldSingleTargetId
  /\ holdRun = wideHoldSingleStartedAt
  /\ now - wideHoldSingleStartedAt >= CONFIG.wideHoldBeforeSingleMs
  /\ CONFIG.wideHoldBeforeSingleMs > 0
  /\ pendingSwitch.targetId = last.decision.switchTo

\* C6: Hold-time monotonicity.  For every input and every instant from now
\* on, if less than holdTime has passed since the oldest sample retained in
\* the input's window, getCamerasWithAudio does not return the input,
\* whatever its average.
C6_HoldTimeMonotonicity ==
  \A j \in 1..Len(tracker.levels) :
    \A t \in now..(now + CONFIG.holdTime) :
      LET e == tracker.levels[j]
      IN  (Len(e.list) > 0 /\ t - e.list[1].timestamp < CONFIG.holdTime)
            => e.key \notin activeInputs(CONFIG, tracker, t)

C6_Witness ==
  /\ last.op = "query"
  /\ \E j \in 1..Len(tracker.levels) :
       LET e == tracker.levels[j]
       IN  /\ Len(e.list) = CONFIG.samplesForAverage
           /\ aboveThreshold(CONFIG, e.list)
           /\ now - e.list[1].timestamp = CONFIG.holdTime - 1
           /\ e.key \notin activeInputs(CONFIG, tracker, now)
           /\ e.key \in activeInputs(CONFIG, tracker, now + 1)

\* C7 (as claimed): Hold time as sustained speech.  An input returned by
\* getCamerasWithAudio(now) has had its window average above volumeThreshold
\* without interruption for at least holdTime.
C7_SustainedSpeech ==
  \A i \in activeInputs(CONFIG, tracker, now) :
    aboveSince[i] # NullT /\ now - aboveSince[i] >= CONFIG.holdTime

\* C8: Exactly-one invariant.  For every current camera and lastSwitchTime,
\* with or without a wide camera, if getCamerasWithAudio(now) returns two or
\* more inputs, decide returns no candidate with reason 'single'.
C8_ExactlyOne ==
  \A currentCameraId \in {Null} \cup Range(CONFIG.cameraMapping), lastSwitch \in 0..now :
    Len(getCamerasWithAudio(CONFIG, tracker, now)) >= 2
      => decide(CONFIG, tracker, currentCameraId, now, lastSwitch).reason # "single"

C8_Witness ==
  /\ last.op = "query"
  /\ last.nActive >= 2
  /\ last.prevSwitchTime = 0
  /\ ~wideConfig(CONFIG) \/ last.from = CONFIG.wideCameraId
  /\ last.decision = NoDecision

\* C9 (as claimed): End-to-end scenario A.  With every other input silent and
\* input 1 loud from some sample on, the switch to input 1 with reason
\* 'single' comes no earlier than holdTime + switchDelayMs after the first
\* sample of input 1 above volumeThreshold.
C9_ScenarioA ==
  (switched /\ last.log.camera = 1 /\ last.log.reason = "single")
    => now - talk >= CONFIG.holdTime + CONFIG.switchDelayMs

\* C10 (as claimed): End-to-end scenario B.  Connected, on a non-wide input,
\* wide camera configured, wide cooldown over: from the first evaluation with
\* two or more active inputs on, while every evaluation has two or more, the
\* engine switches to the wide camera at the first evaluation at least
\* switchDelayWideMs later, not before, and with reason 'multi'.
C10_ScenarioB ==
  (multiRun # NullT /\ last.evaluated)
    => /\ switched =>
            /\ last.log.camera = CONFIG.wideCameraId
            /\ last.log.reason = "multi"
            /\ now - multiRun >= CONFIG.switchDelayWideMs
       /\ (now - multiRun >= CONFIG.switchDelayWideMs)
            => currentCamera = CONFIG.wideCameraId

\* Scenario C is given until QuietBy to begin: the windows are then flushed,
\* silenceToWideMs, cooldownTime and switchDelayMs can all pass before MaxTime.
QuietBy == MaxTime - 6

\* C11 (as claimed): End-to-end scenario C.  Connected, wide camera configured,
\* not on the wide camera: when from some instant on every sample of every
\* input is at or below volumeThreshold and the ticks keep coming, the engine
\* switches to the wide camera with reason 'silence' and evidence
\* silenceDuration >= silenceToWideMs (by the end of the run), and no switch
\* with reason 'silence' comes before silenceToWideMs has passed since the last
\* sample above the threshold.
C11_ScenarioC ==
  /\ (quiet # NoQuiet /\ quiet.since <= QuietBy /\ now = MaxTime) => quiet.cut
  /\ (quiet # NoQuiet /\ switched /\ last.log.reason = "silence" /\ lastLoud > 0)
       => now - lastLoud >= CONFIG.silenceToWideMs

C13_DelayBeforeEveryCut ==
  switched
    => /\ cand.target = currentCamera
       /\ now - cand.since >= CONFIG.switchDelayMs

\* C14: Optimistic update without rollback.  A confirmed switch to T sets
\* currentCamera = T and lastSwitchTime = now in the evaluation that confirms
\* it, with its device command still unanswered; a failure of a device command
\* changes none of currentCamera, lastSwitchTime, PendingSwitch, WideHoldState.
C14_OptimisticUpdate ==
  [][ /\ switched' =>
           /\ currentCamera' = last'.log.camera
           /\ lastSwitchTime' = now'
           /\ inflight' = Append(inflight, doCut(CONFIG, currentCamera'))
      /\ last'.op = "fail" => UNCHANGED engineVars ]_vars

C14_Witness ==
  /\ last.op = "fail"
  /\ last.failed = currentCamera
  /\ lastSwitchTime > 0
  /\ pendingSwitch # NoPending

\* C15: No automatic retry.  An evaluation calls doCut once if it confirms a
\* switch, and then currentCamera differed from the target, and not at all
\* otherwise; a failed device command ends its call of doCut and issues
\* nothing, and the timer keeps running.
C15_NoRetry ==
  [][ /\ Len(last'.cmds) = (IF switched' THEN 1 ELSE 0)
      /\ Len(inflight') > Len(inflight) =>
           /\ switched'
           /\ last'.from # last'.log.camera
           /\ Len(inflight') = Len(inflight) + 1
      /\ last'.op = "fail" =>
           /\ Len(inflight') = Len(inflight) - 1
           /\ monitoring' ]_vars

C15_Witness ==
  /\ last.op = "fail"
  /\ last.failed = currentCamera
  /\ inflight = <<>>
  /\ isConnected
  /\ now < MaxTime

\* C16 (as claimed): Malformed sample dropped.  A level event whose payload
\* is malformed (no levels, or a left or right level missing) adds no sample
\* to any input's window and does not update lastTimeAnyAudio.
C16_MalformedDropped ==
  [][ (last'.op = "levelChanged" /\ malformed(last'.payload)) => tracker' = tracker ]_vars

\* C17: Connectivity loss.  While isConnected is false, a call of
\* evaluateSwitch issues no device command and leaves currentCamera,
\* lastSwitchTime, PendingSwitch and WideHoldState unchanged.
C17_ConnectivityLoss ==
  [][ (~isConnected /\ last'.op \in {"tick", "event"}) =>
        /\ UNCHANGED engineVars
        /\ inflight' = inflight
        /\ last'.cmds = <<>> ]_vars

C17_Witness ==
  /\ ~isConnected
  /\ last.op = "tick"
  /\ pendingSwitch # NoPending
  /\ decide(CONFIG, tracker, currentCamera, now, lastSwitchTime).switchTo
       \notin {Null, pendingSwitch.targetId}

\* C18: Missing wide-camera mapping.  When wideCameraId has no entry in
\* cameraMapping, decide returns no candidate with reason 'silence' or
\* 'multi', whatever the current camera and the last switch time, no confirmed
\* switch goes to wideCameraId, and currentCamera is unset or an input of
\* cameraMapping.
C18_MissingWideMapping ==
  ~mapped(CONFIG, CONFIG.wideCameraId) =>
    /\ last.decision.reason \notin {"silence", "multi"}
    /\ \A c \in {Null, CONFIG.wideCameraId} \cup Range(CONFIG.cameraMapping) :
         decide(CONFIG, tracker, c, now, 0).reason \notin {"silence", "multi"}
    /\ last.log.camera # CONFIG.wideCameraId
    /\ currentCamera \in {Null} \cup Range(CONFIG.cameraMapping)

C18_Witness ==
  /\ ~mapped(CONFIG, CONFIG.wideCameraId)
  /\ last.evaluated
  /\ last.nActive = 0
  /\ last.from \in Range(CONFIG.cameraMapping)
  /\ tracker.lastTimeAnyAudio > 0
  /\ getSilenceDuration(tracker, now) >= CONFIG.silenceToWideMs
  /\ last.decision = NoDecision

\* C19: InputWindow bound and FIFO.  After any sequence of store calls, the
\* window of every input holds at most samplesForAverage samples, and they are
\* the most recent min(k, samplesForAverage) of the k samples stored for that
\* input, in the order in which they were stored; so a store on one input
\* leaves the window of every other input as it was.
C19_WindowFifo ==
  \A i \in EventInputs :
    LET window == get(tracker.levels, i)
        k == Len(stored[i])
        kept == IF k < CONFIG.samplesForAverage THEN k ELSE CONFIG.samplesForAverage
    IN  /\ Len(window) <= CONFIG.samplesForAverage
        /\ window = SubSeq(stored[i], k - kept + 1, k)

C19_Witness ==
  /\ last.op = "store"
  /\ \E i, j \in EventInputs :
       /\ i # j
       /\ Len(stored[i]) > CONFIG.samplesForAverage
       /\ Len(stored[j]) > 0
       /\ stored[i][1].volume # stored[i][Len(stored[i])].volume
       /\ Len(get(tracker.levels, i)) = CONFIG.samplesForAverage

\* C20: Last-activity tracking.  After any sequence of store calls on any
\* inputs, lastTimeAnyAudio is the instant of the most recent store of a level
\* above volumeThreshold (its initial value if there is none): a store sets it
\* to the current time if the level exceeds the threshold and leaves it alone
\* otherwise; so getSilenceDuration(now) is the time since that store.
C20_LastActivity ==
  /\ tracker.lastTimeAnyAudio = lastLoud
  /\ getSilenceDuration(tracker, now) = now - lastLoud
  /\ lastLoud > 0 <=> everAbove

C20_Witness ==
  /\ last.op = "store"
  /\ lastLoud > 0
  /\ lastLoud < now
  /\ \E i, j \in 1..Len(tracker.levels) :
       LET quietOne == tracker.levels[i].list
           loudOne == tracker.levels[j].list
       IN  /\ i # j
           /\ quietOne[Len(quietOne)].timestamp = now
           /\ quietOne[Len(quietOne)].volume <= CONFIG.volumeThreshold
           /\ loudOne[Len(loudOne)].timestamp = lastLoud
           /\ loudOne[Len(loudOne)].volume > CONFIG.volumeThreshold

\* The rule list of the Decider as the specification words it: the target and
\* the reason of the first rule that matches (Null and "none" if none does).
\* multiNeedsWide tells whether rule 2 asks for a configured wide camera.
C21_Rule(multiNeedsWide, currentCameraId) ==
  LET active == activeInputs(CONFIG, tracker, now)
      wide == CONFIG.wideCameraId
      wideConfigured == wide \in Range(CONFIG.cameraMapping)
      best == getBestSingleCamera(CONFIG, tracker, now, currentCameraId).inputId
  IN  IF /\ active = {}
         /\ wideConfigured
         /\ currentCameraId # wide
         /\ tracker.lastTimeAnyAudio > 0
         /\ now - tracker.lastTimeAnyAudio >= CONFIG.silenceToWideMs
      THEN <<wide, "silence">>
      ELSE IF /\ Cardinality(active) >= 2
              /\ currentCameraId # wide
              /\ multiNeedsWide => wideConfigured
      THEN <<wide, "multi">>
      ELSE IF Cardinality(active) = 1 /\ best # Null /\ best # currentCameraId
      THEN <<best, "single">>
      ELSE <<Null, "none">>

\* The cooldown gate as the specification words it.
C21_Gate(c, currentCameraId, lastSwitch) ==
  LET cooldown ==
        IF c[2] \in {"silence", "multi"}
           \/ (c[2] = "single" /\ currentCameraId = CONFIG.wideCameraId)
        THEN CONFIG.cooldownWideMs
        ELSE CONFIG.cooldownTime
  IN  IF c[2] # "none" /\ lastSwitch > 0 /\ now - lastSwitch < cooldown
      THEN <<Null, "none">>
      ELSE c

C21_Agrees(multiNeedsWide) ==
  \A currentCameraId \in {Null} \cup Range(CONFIG.cameraMapping), lastSwitch \in 0..now :
    LET d == decide(CONFIG, tracker, currentCameraId, now, lastSwitch)
    IN  /\ <<d.switchTo, d.reason>> =
             C21_Gate(C21_Rule(multiNeedsWide, currentCameraId), currentCameraId, lastSwitch)
        /\ d.reason = "silence" => d.silenceDuration = now - tracker.lastTimeAnyAudio

C22_PendingLifecycle ==
  /\ (last.evaluated /\ (switched \/ last.decision = NoDecision))
       => pendingSwitch = NoPending
  /\ pendingSwitch # NoPending => pendingSwitch.targetId # currentCamera
  /\ (last.evaluated /\ pendingSwitch # NoPending)
       => pendingSwitch.targetId = last.decision.switchTo

\* C23: Minimum time before narrowing from wide.  With wideHoldBeforeSingleMs
\* > 0 and switchDelayMs > 0, every confirmed switch from the wide camera to
\* a single-speaker camera is executed at least wideHoldBeforeSingleMs +
\* switchDelayMs after the first 'single' candidate the scheduler saw since
\* the engine last switched to the wide camera; WideHoldState is empty at
\* the moment the engine switches to the wide camera.
C23_NarrowingFromWide ==
  /\ (switched /\ last.from = CONFIG.wideCameraId)
       => /\ firstSingle # NullT
          /\ now - firstSingle >= CONFIG.wideHoldBeforeSingleMs + CONFIG.switchDelayMs
  /\ (switched /\ last.log.camera = CONFIG.wideCameraId)
       => /\ wideHoldSingleStartedAt = NullT
          /\ wideHoldSingleTargetId = Null

C23_Witness ==
  /\ switched
  /\ last.from = CONFIG.wideCameraId
  /\ last.log.reason = "single"
  /\ firstSingle # NullT
  /\ now - firstSingle = CONFIG.wideHoldBeforeSingleMs + CONFIG.switchDelayMs

C25_InFlightCommands ==
  (device.overlap /\ device.queue = <<>>) => device.program = currentCamera

\* The sum and the number of the samples in the window of input i.
C26_Sum(i) == SumVolume(get(tracker.levels, i))
C26_Len(i) == Len(get(tracker.levels, i))

\* Input i is active and, when current is set, its average exceeds the
\* average of the current camera's window (0 if that window is empty) by at
\* least minVolumeDifference.
C26_Eligible(i, current) ==
  /\ i \in activeInputs(CONFIG, tracker, now)
  /\ current # Null =>
       IF C26_Len(current) > 0
       THEN C26_Sum(i) * C26_Len(current) - C26_Sum(current) * C26_Len(i)
              >= CONFIG.minVolumeDifference * C26_Len(i) * C26_Len(current)
       ELSE C26_Sum(i) >= CONFIG.minVolumeDifference * C26_Len(i)

\* The place of input i in the first-seen order of the tracker's windows.
C26_Seen(i) == CHOOSE j \in 1..Len(tracker.levels) : tracker.levels[j].key = i

\* byId: ties go to the smallest input id; otherwise to the input seen first.
C26_Best(byId) ==
  \A current \in {Null} \cup Range(CONFIG.cameraMapping) :
    LET b == getBestSingleCamera(CONFIG, tracker, now, current).inputId
        eligible == {i \in EventInputs : C26_Eligible(i, current)}
    IN  IF eligible = {} THEN b = Null
        ELSE /\ b \in eligible
             /\ \A q \in eligible :
                  /\ C26_Sum(b) * C26_Len(q) >= C26_Sum(q) * C26_Len(b)
                  /\ C26_Sum(b) * C26_Len(q) = C26_Sum(q) * C26_Len(b)
                       => IF byId THEN b <= q ELSE C26_Seen(b) <= C26_Seen(q)

\* C26 (as claimed): Best single candidate.  getBestSingleCamera(now,
\* current) returns none or an input that is in getCamerasWithAudio(now) and,
\* when current is set, whose average exceeds the average of the current
\* camera's window by at least minVolumeDifference; among such inputs it
\* returns the one with the highest average, and on equal averages the input
\* with the smallest input id.
C26_BestSingleAsClaimed == C26_Best(TRUE)

\* C26 (amended): the same, and on equal averages the input whose window the
\* tracker created first.
C26_BestSingle == C26_Best(FALSE)

C26_Witness ==
  /\ last.op = "query"
  /\ Len(tracker.levels) = 2
  /\ tracker.levels[1].key > tracker.levels[2].key
  /\ activeInputs(CONFIG, tracker, now) = {tracker.levels[1].key, tracker.levels[2].key}
  /\ C26_Sum(1) * C26_Len(2) = C26_Sum(2) * C26_Len(1)
  /\ getBestSingleCamera(CONFIG, tracker, now, last.from).inputId = tracker.levels[1].key

\* C27 (as claimed): Both ingestion paths agree with the Level Codec.  For
\* every raw level, the normalized value stored by the polling path equals
\* the value the event path (parseFairlightLevels with the configured minDb,
\* maxDb) stores for the same level, and every stored value lies in [0,1].
C27_PathsAgree ==
  last.raw # NoRaw =>
    \A i \in DOMAIN last.raw :
      last.raw[i] # Undefined =>
        LET list == get(tracker.levels, i)
            polledValue == list[Len(list)].volume
            props == [levels |-> TRUE, leftLevel |-> last.raw[i], rightLevel |-> last.raw[i]]
        IN  /\ polledValue = parseFairlightLevels(props, CONFIG.minDb, CONFIG.maxDb)
            /\ polledValue \in 0..100

\* The speaker has to start by this instant for the run to show whether the
\* input appears: the rest of the run is twice the hold time.
SpeakerBy == MaxBurstTime - 2 * BurstConfig.holdTime

\* C28 (as claimed): New speaker is not starved.  If from some instant on
\* every sample stored for a configured input is above volumeThreshold, then
\* that input eventually appears in getCamerasWithAudio, whatever the rate at
\* which samples are stored into its window.  On a run that ends at
\* MaxBurstTime: an input that has been speaking since SpeakerBy or earlier
\* has appeared by the end of the run.
C28_NotStarved ==
  \A i \in DOMAIN speaker :
    (now = MaxBurstTime /\ speaker[i].since # NullT /\ speaker[i].since <= SpeakerBy)
      => speaker[i].seen

\* C29 (as claimed): Reported reason is current.  The reason and the evidence
\* attached to every confirmed switch are those of the candidate the Decider
\* returned at the evaluation that executes the switch.
C29_ReportedReasonCurrent ==
  (last.evaluated /\ switched)
    => /\ last.log.reason = last.decision.reason
       /\ last.log.silenceDuration = last.decision.silenceDuration

C31_ActivityKept ==
  [][\A i \in activeInputs(CONFIG, tracker, now) :
       get(tracker'.levels, i) = get(tracker.levels, i)
         => \A t \in now'..MaxTime : i \in activeInputs(CONFIG, tracker', t)]_vars

\* An input that was active an instant ago and is active now, although its
\* newest sample is older than both instants.
C31_Witness ==
  \E i \in activeInputs(CONFIG, tracker, now) :
    /\ i \in activeInputs(CONFIG, tracker, now - 1)
    /\ LET list == get(tracker.levels, i)
       IN  list[Len(list)].timestamp < now - 1

====
